---- MODULE Spec2Model ----
(***************************************************************************)
(* Model of src/blog-crud.js: the browser-local blog-post store (seed from *)
(* markup, add, delete with undo, restore, expiry timer) backed by         *)
(* localStorage.  Every handler runs to completion on the UI thread, so    *)
(* each handler is one action.                                             *)
(***************************************************************************)
EXTENDS Integers, Sequences, FiniteSets, TLC

\* ---------------------------------------------------------------- bounds
\* addBlog is offered only while the store holds fewer than MaxLen records.
MaxLen == 2
\* Date.now() is observed in 0..MaxClock (milliseconds).
MaxClock == 1

\* Stored text fields handed to the renderer hold at most MaxStr characters.
MaxStr == 3
\* The character budget of an excerpt: truncate(blog.content, 320).
ExcerptLen == 320

\* Largest number of static .blog-card elements a page's container holds.
MaxCards == MaxLen

\* Titles passed to addBlog: the blank title, which addBlog replaces.
Titles == {""}

\* ------------------------------------------------------------ JS values
\* A JS number used as an index argument: NaN or an integer.
Num(n) == [nan |-> FALSE, val |-> n]
NaN == [nan |-> TRUE, val |-> 0]

\* Index arguments offered to deleteBlog / deleteBlogById: the integers the
\* Delete buttons and integer callers pass, and with NaN every number.
IntIndices == {Num(n) : n \in -1..(MaxLen + 1)}
Indices == IntIndices \cup {NaN}

\* JS relational operators: any comparison with NaN is false.
JsLt(a, b) == ~a.nan /\ ~b.nan /\ a.val < b.val
JsGe(a, b) == ~a.nan /\ ~b.nan /\ a.val >= b.val

\* ToIntegerOrInfinity, as applied by Array.prototype.splice to its start.
ToInteger(a) == IF a.nan THEN 0 ELSE a.val

\* Math.min: NaN if either argument is NaN.
MathMin(a, b) == IF a.nan \/ b.nan THEN NaN ELSE IF a.val <= b.val THEN a ELSE b

\* The value `undefined` (a read of a missing array element) and JSON null.
Undefined == [undef |-> TRUE]
Null == [null |-> TRUE]
IsNil(b) == b = Undefined \/ b = Null

\* blogs[index]: a missing property reads as undefined.
At(s, index) ==
    IF ~index.nan /\ index.val >= 0 /\ index.val < Len(s)
    THEN s[index.val + 1] ELSE Undefined

\* The clamped start position of Array.prototype.splice.
SpliceStart(s, start) ==
    LET rel == ToInteger(start)
    IN  IF rel < 0 THEN (IF Len(s) + rel > 0 THEN Len(s) + rel ELSE 0)
        ELSE IF rel < Len(s) THEN rel ELSE Len(s)

\* blogs.splice(index, 1)
RemoveAt_toEnd(s, index) == SubSeq(s, 1, SpliceStart(s, index))
RemoveAt(s, index) ==
    LET k == SpliceStart(s, index)
    IN  SubSeq(s, 1, k) \o SubSeq(s, k + 2, Len(s))

\* blogs.splice(idx, 0, blog)
InsertAt(s, idx, blog) ==
    LET k == SpliceStart(s, idx)
    IN  SubSeq(s, 1, k) \o <<blog>> \o SubSeq(s, k + 1, Len(s))

\* blogs.unshift(newBlog)
Unshift_push(s, blog) == Append(s, blog)
Unshift(s, blog) == <<blog>> \o s

\* ------------------------------------------------------------- the state
VARIABLES
    blogs,            \* in-memory list of post objects
    recentlyDeleted,  \* <<>> for null, else <<[blog, index]>>
    undoTimeout,      \* timer handle, 0 for null
    timers,           \* handles of the live (scheduled, uncancelled) timers
    storage,          \* the value under STORAGE_KEY in localStorage
    now,              \* Date.now()
    page,             \* the document: [container, box]
    ready,            \* DOMContentLoaded has run on this page
    hist,             \* history: the handler that ran last and what it saw
    lost,             \* history: the record of the first of two deletes in a row
    threw,            \* history: save() has thrown
    post,             \* the record renderBlogs() is drawing (text as characters)
    markup            \* the card markup renderBlogs() emitted for it

vars == <<blogs, recentlyDeleted, undoTimeout, timers, storage, now, page,
          ready, hist, lost, threw, post, markup>>

\* ------------------------------------------------------------- storage
Absent == [kind |-> "absent", list |-> <<>>]
Malformed == [kind |-> "malformed", list |-> <<>>]
NonArray == [kind |-> "object", list |-> <<>>]

\* JSON.stringify of one array element: undefined becomes null.
ToJson(b) == IF IsNil(b) THEN Null ELSE b

\* JSON.stringify(blogs)
Stringify(s) == [i \in 1..Len(s) |-> ToJson(s[i])]

\* The value save() leaves under the key.
Saved_before(s) == [kind |-> "list", list |-> Stringify(blogs)]
Saved(s) == [kind |-> "list", list |-> Stringify(s)]

\* JSON.parse of the text of a stored list.
Parse_none(list) == <<>>
Parse(list) == list

\* load(): null (here <<>> with isList FALSE) when the key is missing, the
\* text does not parse, or the parsed value is falsy.
load == [isList |-> storage.kind = "list",
         isNull |-> storage.kind \in {"absent", "malformed"},
         list |-> storage.list]

\* stored && Array.isArray(stored) && stored.length > 0
UsePersisted_moreThanOne(stored) == ~stored.isNull /\ stored.isList /\ Len(stored.list) > 1
UsePersisted(stored) == ~stored.isNull /\ stored.isList /\ Len(stored.list) > 0

\* ------------------------------------------------------------- the page
\* A document of the site: whether it has #blogList and #undoMessage.
Pages == [container : BOOLEAN, box : BOOLEAN]

\* title fallback of a card without a heading: `Post ${i+1}`
PostTitle(i) == "Post " \o ToString(i)

\* staticCards.map((card, i) => ({ id: Date.now() + i, ... })), i 0-based;
\* here k = i + 1.
SeedId(k) == now + (k - 1)

Seed(n) == [k \in 1..n |-> [id |-> SeedId(k), title |-> PostTitle(k)]]

\* renderBlogs() throws a TypeError when it reads .image of a null or
\* undefined element; without #blogList it returns before the loop.
RenderThrows(s) == page.container /\ \E i \in 1..Len(s) : IsNil(s[i])

\* setTimeout returns a handle no live or remembered timer carries.
NewHandle == CHOOSE h \in 1..(Cardinality(timers) + 2) : h \notin timers /\ h # undoTimeout

\* showUndo(): nothing without #undoMessage; otherwise the remembered timer
\* is cleared and a new one is scheduled.  Result: [handle, live].
ShowUndo ==
    IF ~page.box THEN [handle |-> undoTimeout, live |-> timers]
    ELSE [handle |-> NewHandle, live |-> (timers \ {undoTimeout}) \cup {NewHandle}]

\* recentlyDeleted = { blog: blogs[index], index: index }
Capture_keepFirst(blog, index) ==
    IF recentlyDeleted # <<>> THEN recentlyDeleted ELSE <<[blog |-> blog, index |-> index]>>
Capture(blog, index) == <<[blog |-> blog, index |-> index]>>

\* if (index < 0 || index >= blogs.length) return;
DeleteReturnsEarly_never(index) == FALSE
DeleteReturnsEarly(index) == JsLt(index, Num(0)) \/ JsGe(index, Num(Len(blogs)))

\* History of the last handler: its kind, the list it started from, its
\* argument, and the kind of value it found under the storage key.
Hist(kind, list, arg, had) == [kind |-> kind, list |-> list, arg |-> arg, had |-> had]
NoHist == Hist("none", <<>>, NaN, "")

\* save() is called or not, and returns (ok) or throws: setItem throws when
\* the quota is exceeded, which a behaviour of the model sees at most once.
Save(called, ok) ==
    /\ called \/ ok
    /\ ok \/ ~threw
    /\ threw' = (threw \/ ~ok)

\* ------------------------------------------------------------ rendering
\* Text is a sequence of characters.  The characters of stored text: a
\* letter, a blank, and the four characters escapeHtml replaces.
Chars == {"a", " ", "&", "\"", "<", ">"}

RECURSIVE TextsUpTo(_)
TextsUpTo(n) ==
    IF n = 0 THEN {<<>>}
    ELSE LET shorter == TextsUpTo(n - 1)
         IN  shorter \cup {Append(t, c) : t \in {u \in shorter : Len(u) = n - 1}, c \in Chars}

Texts == TextsUpTo(MaxStr)

\* str.replace(/ch/g, entity)
RECURSIVE ReplaceAll(_, _, _)
ReplaceAll(s, ch, entity) ==
    IF s = <<>> THEN <<>>
    ELSE (IF Head(s) = ch THEN entity ELSE <<Head(s)>>) \o ReplaceAll(Tail(s), ch, entity)

\* escapeHtml(str): '' for a falsy str, else the four replacements in the
\* order of the code.
escapeHtml_noQuote(str) ==
    ReplaceAll(ReplaceAll(ReplaceAll(str, "&", <<"&", "a", "m", "p", ";">>),
                          "<", <<"&", "l", "t", ";">>),
               ">", <<"&", "g", "t", ";">>)
escapeHtml(str) ==
    IF str = <<>> THEN <<>>
    ELSE ReplaceAll(ReplaceAll(ReplaceAll(ReplaceAll(str,
                        "&", <<"&", "a", "m", "p", ";">>),
                        "\"", <<"&", "q", "u", "o", "t", ";">>),
                        "<", <<"&", "l", "t", ";">>),
                        ">", <<"&", "g", "t", ";">>)

\* truncate(s, n)
truncate(s, n) == IF Len(s) > n THEN SubSeq(s, 1, n) \o <<".", ".", ".">> ELSE s

\* blog.detailUrl && blog.detailUrl.trim() !== '' ? blog.detailUrl
\*                                               : `single.html?id=${blog.id}`
readHref(blog) ==
    IF \E i \in 1..Len(blog.detailUrl) : blog.detailUrl[i] # " "
    THEN blog.detailUrl
    ELSE <<"s", "i", "n", "g", "l", "e", ".", "h", "t", "m", "l", "?", "i", "d", "=">>
             \o <<ToString(blog.id)>>

\* One piece of the template literal: the literal text and the value
\* interpolated after it (`from` names the stored field it comes from).
Piece(lit, from, val) == [lit |-> lit, from |-> from, val |-> val]

\* card.innerHTML of renderBlogs() for the record `blog` at position idx.
CardHtml(blog, idx) ==
    (IF blog.image # <<>>
     THEN << Piece("<div class=\"card-image\"><img src=\"", "image", escapeHtml(blog.image)),
             Piece("\" alt=\"", "title", escapeHtml(blog.title)),
             Piece("\"></div>", "", <<>>) >>
     ELSE <<>>)
    \o << Piece("<div class=\"card-body\"><h3 class=\"blog-title\">", "title",
                 escapeHtml(blog.title)),
          Piece("</h3><p class=\"blog-excerpt\">", "content",
                 escapeHtml(truncate(blog.content, ExcerptLen))),
          Piece("</p><div class=\"card-buttons\"><a class=\"read-more btn\" href=\"", "href",
                 escapeHtml(readHref(blog))),
          Piece("\">Read More</a><button class=\"delete-btn btn\" data-index=\"", "index",
                 <<ToString(idx)>>),
          Piece("\">Delete</button></div></div>", "", <<>>) >>

\* The records handed to the renderer: one text field varies at a time.
PlainPost == [id |-> 0, title |-> <<"a">>, image |-> <<>>, content |-> <<>>, detailUrl |-> <<>>]
Posts ==
    {[PlainPost EXCEPT ![f] = t] : f \in {"title", "image", "content", "detailUrl"}, t \in Texts}

\* ------------------------------------------------------------- actions
Init ==
    /\ blogs = <<>>
    /\ recentlyDeleted = <<>>
    /\ undoTimeout = 0
    /\ timers = {}
    /\ storage \in {Absent, Malformed, NonArray}
    /\ now = 0
    /\ page \in Pages
    /\ ready = FALSE
    /\ hist = NoHist
    /\ lost = <<>>
    /\ threw = FALSE
    /\ post = PlainPost
    /\ markup = <<>>

\* The browser opens (or reloads) a page of the site: the script's module
\* state is created anew; localStorage survives; the old page's timers die.
Navigate ==
    /\ blogs' = <<>>
    /\ recentlyDeleted' = <<>>
    /\ undoTimeout' = 0
    /\ timers' = {}
    /\ page' \in Pages
    /\ ready' = FALSE
    /\ hist' = NoHist
    /\ lost' = <<>>
    /\ UNCHANGED <<storage, now, threw, post, markup>>

\* initializeFromDOM(), `cards` being the number of static .blog-card
\* elements the container holds; a throwing save() ends the handler, the assignment
\* to blogs before it stays.  renderBlogs() and renderSingleIfNeeded()
\* change no state of the store.
initializeFromDOM(cards, throws) ==
    LET stored == load
    IN  IF UsePersisted(stored)
        THEN /\ blogs' = Parse(stored.list)
             /\ Save(FALSE, ~throws)
             /\ UNCHANGED storage
        ELSE IF ~page.container
        THEN /\ blogs' = <<>>
             /\ Save(FALSE, ~throws)
             /\ UNCHANGED storage
        ELSE IF cards = 0
        THEN /\ blogs' = <<>>
             /\ Save(TRUE, ~throws)
             /\ storage' = IF ~throws THEN Saved(<<>>) ELSE storage
        ELSE LET newBlogs == Seed(cards)
             IN  /\ blogs' = newBlogs
                 /\ Save(TRUE, ~throws)
                 /\ storage' = IF ~throws THEN Saved(newBlogs) ELSE storage

DOMContentLoaded(cards, throws) ==
    /\ ~ready
    /\ initializeFromDOM(cards, throws)
    /\ ready' = TRUE
    /\ hist' = Hist("loaded", storage.list, Num(cards), storage.kind)
    /\ lost' = <<>>
    /\ UNCHANGED <<recentlyDeleted, undoTimeout, timers, now, page, post, markup>>

\* deleteBlog(index), also reached through window.inspireHub.deleteBlogById
\* and the Delete buttons.  save() throws when `throws` holds; a throw of
\* save() or renderBlogs() ends the handler before showUndo().
deleteBlog(index, throws) ==
    /\ IF DeleteReturnsEarly(index)
       THEN /\ UNCHANGED <<blogs, recentlyDeleted, undoTimeout, timers, storage>>
            /\ Save(FALSE, ~throws)
            /\ hist' = NoHist
            /\ lost' = <<>>
       ELSE LET spliced == RemoveAt(blogs, index)
                shown == ShowUndo
                first == IF recentlyDeleted = <<>> THEN Undefined
                         ELSE recentlyDeleted[1].blog
            IN  /\ recentlyDeleted' = Capture(At(blogs, index), index)
                /\ blogs' = spliced
                /\ Save(TRUE, ~throws)
                /\ storage' = IF ~throws THEN Saved(spliced) ELSE storage
                /\ IF ~throws /\ ~RenderThrows(spliced)
                   THEN undoTimeout' = shown.handle /\ timers' = shown.live
                   ELSE UNCHANGED <<undoTimeout, timers>>
                /\ hist' = Hist("deleted", blogs, index, "")
                \* history: two splicing deletes in a row, of different
                \* records; `first` is then the record of the earlier one
                /\ lost' = IF /\ hist.kind = "deleted"
                              /\ ~IsNil(first)
                              /\ first # At(blogs, index)
                           THEN <<first>> ELSE <<>>
    /\ UNCHANGED <<now, page, ready, post, markup>>

\* The callback scheduled by showUndo() fires (timer t reaches 6000 ms).
TimerExpiry_keepsHandle(t) ==
    /\ t \in timers
    /\ timers' = timers \ {t}
    /\ recentlyDeleted' = <<>>
    /\ hist' = Hist("expired", <<>>, NaN, "")
    /\ UNCHANGED <<blogs, storage, now, page, ready, lost, threw, post, markup, undoTimeout>>
TimerExpiry(t) ==
    /\ t \in timers
    /\ timers' = timers \ {t}
    /\ recentlyDeleted' = <<>>
    /\ undoTimeout' = 0
    /\ hist' = Hist("expired", <<>>, NaN, "")
    /\ UNCHANGED <<blogs, storage, now, page, ready, lost, threw, post, markup>>

\* idx = Math.min(recentlyDeleted.index, blogs.length)
RestoreIndex_zero(slot) == Num(0)
RestoreIndex(slot) == MathMin(slot.index, Num(Len(blogs)))

\* undoDelete(), also reached through window.inspireHub.undoDelete and the
\* Undo button.  A throwing save() leaves recentlyDeleted and the timer as
\* they were; a throwing renderBlogs() leaves the timer as it was.  The
\* restore is offered while the list holds at most MaxLen records.
undoDelete(throws) ==
    /\ hist' = IF hist.kind = "deleted" /\ recentlyDeleted # <<>>
               THEN Hist("restored", hist.list, hist.arg, "") ELSE NoHist
    /\ IF recentlyDeleted = <<>>
       THEN /\ UNCHANGED <<blogs, recentlyDeleted, undoTimeout, timers, storage>>
            /\ Save(FALSE, ~throws)
       ELSE LET slot == recentlyDeleted[1]
                restored == InsertAt(blogs, RestoreIndex(slot), slot.blog)
            IN  /\ Len(blogs) <= MaxLen
                /\ blogs' = restored
                /\ Save(TRUE, ~throws)
                /\ storage' = IF ~throws THEN Saved(restored) ELSE storage
                /\ recentlyDeleted' = IF ~throws THEN <<>> ELSE recentlyDeleted
                /\ IF ~throws /\ ~RenderThrows(restored)
                   THEN undoTimeout' = 0 /\ timers' = timers \ {undoTimeout}
                   ELSE UNCHANGED <<undoTimeout, timers>>
    /\ UNCHANGED <<now, page, ready, lost, post, markup>>

\* title: title || 'Untitled'
TitleOrDefault(title) == IF title = "" THEN "Untitled" ELSE title

\* addBlog(fields), also reached through window.inspireHub.addBlog.
addBlog(title, throws) ==
    /\ Len(blogs) < MaxLen
    /\ LET newBlog == [id |-> now, title |-> TitleOrDefault(title)]
           added == Unshift(blogs, newBlog)
       IN  /\ blogs' = added
           /\ Save(TRUE, ~throws)
           /\ storage' = IF ~throws THEN Saved(added) ELSE storage
    /\ hist' = Hist("added", blogs, NaN, "")
    /\ lost' = <<>>
    /\ UNCHANGED <<recentlyDeleted, undoTimeout, timers, now, page, ready, post, markup>>

\* A millisecond passes.
Tick ==
    /\ now < MaxClock
    /\ now' = now + 1
    /\ UNCHANGED <<blogs, recentlyDeleted, undoTimeout, timers, storage, page, ready, hist,
                   lost, threw, post, markup>>

\* One step of the page: `indices` are the arguments callers pass to
\* deleteBlog, `throwing` says whether save() may throw (BOOLEAN) or never
\* does ({FALSE}).
NextOn(indices, throwing) ==
    \/ Navigate
    \/ \E cards \in 0..MaxCards, throws \in throwing : DOMContentLoaded(cards, throws)
    \/ \E index \in indices, throws \in throwing : deleteBlog(index, throws)
    \/ \E t \in timers : TimerExpiry(t)
    \/ \E throws \in throwing : undoDelete(throws)
    \/ \E title \in Titles, throws \in throwing : addBlog(title, throws)
    \/ Tick

\* Callers pass integer indices; save() may throw.
Next == NextOn(IntIndices, BOOLEAN)

Spec == Init /\ [][Next]_vars

\* Callers pass integer indices; save() never throws.
NoThrowNext == NextOn(IntIndices, {FALSE})

NoThrowSpec == Init /\ [][NoThrowNext]_vars

\* Callers of deleteBlogById pass any number; save() never throws.
AnyIndexNext == NextOn(Indices, {FALSE})

AnyIndexSpec == Init /\ [][AnyIndexNext]_vars

\* The event loop runs every timer callback that stays scheduled.
FairSpec == NoThrowSpec /\ WF_vars(\E t \in timers : TimerExpiry(t))

\* renderBlogs() on a page with #blogList draws the card of one record.
RenderInit ==
    /\ post \in Posts
    /\ markup = <<>>
    /\ blogs = <<>>
    /\ recentlyDeleted = <<>>
    /\ undoTimeout = 0
    /\ timers = {}
    /\ storage = Absent
    /\ now = 0
    /\ page = [container |-> TRUE, box |-> TRUE]
    /\ ready = TRUE
    /\ hist = NoHist
    /\ lost = <<>>
    /\ threw = FALSE

\* container.innerHTML = ''
clearContainer ==
    /\ markup # <<>>
    /\ markup' = <<>>
    /\ UNCHANGED <<blogs, recentlyDeleted, undoTimeout, timers, storage, now, page, ready,
                   hist, lost, threw, post>>

\* blogs.forEach((blog, idx) => { ... card.innerHTML = ... })
renderCard(idx) ==
    /\ markup = <<>>
    /\ markup' = CardHtml(post, idx)
    /\ UNCHANGED <<blogs, recentlyDeleted, undoTimeout, timers, storage, now, page, ready,
                   hist, lost, threw, post>>

RenderNext ==
    \/ clearContainer
    \/ \E idx \in 0..1 : renderCard(idx)

RenderSpec == RenderInit /\ [][RenderNext]_vars

\* ---------------------------------------------------------------- claims
\* Number of positions of the list s that hold x.
Count(x, s) == Cardinality({i \in 1..Len(s) : s[i] = x})

\* C1: in every reachable state no two records of the store carry the same
\* id, whatever the clock reads when the records are created.
C1_IdsUnique ==
    \A i, j \in 1..Len(blogs) :
        (i # j /\ ~IsNil(blogs[i]) /\ ~IsNil(blogs[j])) => blogs[i].id # blogs[j].id

\* C2: deleteBlog(i) with a valid i, immediately followed by undoDelete(),
\* yields the list as it was before the delete, the record back at
\* position i.
C2_RestoreAfterDelete ==
    hist.kind = "restored" =>
        /\ blogs = hist.list
        /\ Len(blogs) > hist.arg.val
        /\ blogs[hist.arg.val + 1] = hist.list[hist.arg.val + 1]

C2_Witness ==
    /\ hist.kind = "restored"
    /\ Len(hist.list) >= 2
    /\ hist.arg.val >= 1
    /\ blogs[1] # blogs[2]

\* C3: deleteBlog(i) with a valid i shortens the list by exactly one, removes
\* exactly the record at position i, keeps the order of the others, and
\* leaves that record with index i in the pending-deletion slot.
C3_DeleteRemovesOne ==
    hist.kind = "deleted" =>
        LET i == hist.arg.val
            old == hist.list
        IN  /\ ~hist.arg.nan /\ 0 <= i /\ i < Len(old)
            /\ Len(blogs) = Len(old) - 1
            /\ \A j \in 1..Len(blogs) : blogs[j] = IF j <= i THEN old[j] ELSE old[j + 1]
            /\ recentlyDeleted = <<[blog |-> old[i + 1], index |-> Num(i)]>>

C3_Witness ==
    /\ hist.kind = "deleted"
    /\ Len(hist.list) >= 2
    /\ hist.arg.val = 0
    /\ hist.list[1] # hist.list[2]

\* C4: after two valid deletes in a row (of different records) the slot holds
\* only the second record: an undoDelete() that follows puts the second
\* record back, and no undoDelete()/expiry afterwards adds an occurrence of
\* the first record to the store.
C4_FirstDeleteIsGone ==
    [][ /\ (lost # <<>> /\ lost' = lost)
            => Count(lost[1], blogs') <= Count(lost[1], blogs)
        /\ (lost # <<>> /\ hist.kind = "deleted" /\ hist'.kind = "restored")
            => LET second == hist.list[hist.arg.val + 1]
               IN  /\ second # lost[1]
                   /\ Count(second, blogs') = Count(second, blogs) + 1
      ]_vars

C4_Witness ==
    /\ lost # <<>>
    /\ hist.kind = "restored"
    /\ Count(lost[1], blogs) = 0

C6_InvalidIndexIsNoOp ==
    [][ \A index \in Indices :
          ( /\ index.nan \/ index.val < 0 \/ index.val >= Len(blogs)
            /\ \E throws \in BOOLEAN : deleteBlog(index, throws) )
          => UNCHANGED <<blogs, storage, recentlyDeleted, undoTimeout, timers>>
      ]_vars

\* C7: once [] is persisted under the key, a page load does not extract
\* records from the markup: the store is hydrated as the empty list.
C7_EmptyListNotRescanned ==
    (hist.kind = "loaded" /\ hist.had = "list" /\ hist.list = <<>>) => blogs = <<>>

\* C8: on page load with a non-empty persisted list the store is exactly
\* that list and nothing is derived from markup or written, however many
\* cards the container holds.
C8_PersistedWins ==
    (hist.kind = "loaded" /\ hist.had = "list" /\ hist.list # <<>>) =>
        /\ Len(blogs) = Len(hist.list)
        /\ \A j \in 1..Len(blogs) : blogs[j] = hist.list[j]
        /\ storage = [kind |-> "list", list |-> hist.list]

C8_Witness ==
    /\ hist.kind = "loaded"
    /\ hist.had = "list"
    /\ Len(hist.list) = 1
    /\ page.container
    /\ hist.arg.val = MaxCards

\* C9: the pending-deletion slot is non-empty exactly when one expiry timer
\* is live, and never more than one timer is live.
C9_PendingIffOneTimer ==
    /\ Cardinality(timers) <= 1
    /\ (recentlyDeleted # <<>>) <=> (Cardinality(timers) = 1)

\* The values the pending-deletion slot takes under integer indices.
SlotEntries ==
    {<<[blog |-> b, index |-> i]>> :
        b \in [id : 0..(MaxClock + MaxCards), title : {"Untitled"} \cup {PostTitle(k) : k \in 1..MaxCards}],
        i \in IntIndices}

\* C10: with timers that fire unless cancelled, every entry of the
\* pending-deletion slot is eventually gone from the slot (restored, expired
\* or replaced by a later delete).
C10_SlotEventuallyFreed ==
    \A e \in SlotEntries : (recentlyDeleted = e) ~> (recentlyDeleted # e)

\* C11: undoDelete() with an empty slot changes nothing (store, persisted
\* list, slot, timer), and so a second undoDelete() directly after the
\* undoDelete() that followed a delete inserts nothing more.
C11_RestoreIdempotent ==
    [][ /\ (recentlyDeleted = <<>> /\ \E throws \in BOOLEAN : undoDelete(throws))
            => UNCHANGED <<blogs, storage, recentlyDeleted, undoTimeout, timers>>
        /\ (hist.kind = "restored" /\ \E throws \in BOOLEAN : undoDelete(throws))
            => blogs' = blogs
      ]_vars

\* C12: after every add, valid delete and restore that completes (save()
\* returns), loading the persisted value gives the in-memory list, record
\* for record; a record held only in the slot is not in the persisted list.
C12_PersistedEqualsStore ==
    [][ ( \/ \E title \in Titles : addBlog(title, FALSE)
          \/ \E index \in IntIndices : ~DeleteReturnsEarly(index) /\ deleteBlog(index, FALSE)
          \/ recentlyDeleted # <<>> /\ undoDelete(FALSE) )
        => /\ storage'.kind = "list"
           /\ Len(storage'.list) = Len(blogs')
           /\ \A j \in 1..Len(blogs') : storage'.list[j] = blogs'[j]
           /\ \A j \in 1..Len(recentlyDeleted') :
                 Count(recentlyDeleted'[j].blog, storage'.list)
                     = Count(recentlyDeleted'[j].blog, blogs')
      ]_vars

C12_Witness ==
    /\ hist.kind = "deleted"
    /\ ~threw
    /\ recentlyDeleted # <<>>
    /\ Len(blogs) >= 1
    /\ storage = [kind |-> "list", list |-> blogs]
    /\ Count(recentlyDeleted[1].blog, storage.list) = 0

\* The text an escaped value stands for: every entity read back as its
\* character; a "?" marks an ampersand that starts no entity.
RECURSIVE Decode(_)
Decode(s) ==
    IF s = <<>> THEN <<>>
    ELSE IF Head(s) # "&" THEN <<Head(s)>> \o Decode(Tail(s))
    ELSE IF Len(s) >= 5 /\ SubSeq(s, 1, 5) = <<"&", "a", "m", "p", ";">>
         THEN <<"&">> \o Decode(SubSeq(s, 6, Len(s)))
    ELSE IF Len(s) >= 6 /\ SubSeq(s, 1, 6) = <<"&", "q", "u", "o", "t", ";">>
         THEN <<"\"">> \o Decode(SubSeq(s, 7, Len(s)))
    ELSE IF Len(s) >= 4 /\ SubSeq(s, 1, 4) = <<"&", "l", "t", ";">>
         THEN <<"<">> \o Decode(SubSeq(s, 5, Len(s)))
    ELSE IF Len(s) >= 4 /\ SubSeq(s, 1, 4) = <<"&", "g", "t", ";">>
         THEN <<">">> \o Decode(SubSeq(s, 5, Len(s)))
    ELSE <<"?">> \o Decode(Tail(s))

\* The stored text a piece of the card stands for.
StoredText(from) ==
    IF from = "title" THEN post.title
    ELSE IF from = "image" THEN post.image
    ELSE IF from = "content" THEN post.content
    ELSE IF \A i \in 1..Len(post.detailUrl) : post.detailUrl[i] = " "
         THEN <<"s", "i", "n", "g", "l", "e", ".", "h", "t", "m", "l", "?", "i", "d", "=", "0">>
    ELSE post.detailUrl

\* C13: in the card markup of every record, the values emitted for title,
\* content, image URL and read-more URL hold no <, > or ", and every & in
\* them starts one of the four entities: read back, each value is the
\* stored text.
C13_MarkupEscaped ==
    \A k \in 1..Len(markup) :
        markup[k].from \in {"title", "image", "content", "href"} =>
            /\ \A i \in 1..Len(markup[k].val) : markup[k].val[i] \notin {"<", ">", "\""}
            /\ Decode(markup[k].val) = StoredText(markup[k].from)

C13_Witness ==
    /\ markup # <<>>
    /\ \E i \in 1..Len(post.title) : post.title[i] = "\""
    /\ \E i \in 1..Len(post.title) : post.title[i] = "&"
    /\ \E i \in 1..Len(post.title) : post.title[i] = "<"

C15_TimerReset ==
    [][ /\ (\E index \in IntIndices, throws \in BOOLEAN :
                ~DeleteReturnsEarly(index) /\ deleteBlog(index, throws))
            => (timers' \cap timers = {} /\ Cardinality(timers') <= 1)
        /\ (/\ recentlyDeleted # <<>> /\ recentlyDeleted' = <<>>
            /\ \E throws \in BOOLEAN : undoDelete(throws))
            => timers' = {}
      ]_vars

\* C16: the timer callback empties the slot and forgets the timer handle;
\* it leaves the store and the value under the storage key as they were.
C16_ExpiryOnlyClearsUndo ==
    [][ (\E t \in timers : TimerExpiry(t))
        => /\ recentlyDeleted' = <<>>
           /\ undoTimeout' = 0
           /\ blogs' = blogs
           /\ storage' = storage
      ]_vars

C16_Witness ==
    /\ hist.kind = "expired"
    /\ recentlyDeleted = <<>> /\ undoTimeout = 0 /\ timers = {}
    /\ Len(blogs) >= 1 /\ storage = [kind |-> "list", list |-> blogs]

\* C17: whenever the slot holds a record, its index is an integer with
\* 0 <= index <= Len(blogs), so Math.min(index, blogs.length) is the index
\* itself and undoDelete() inserts at exactly that position.
C17_IndexWithinStore ==
    recentlyDeleted # <<>> =>
        /\ ~recentlyDeleted[1].index.nan
        /\ 0 <= recentlyDeleted[1].index.val
        /\ recentlyDeleted[1].index.val <= Len(blogs)
        /\ RestoreIndex(recentlyDeleted[1]) = recentlyDeleted[1].index

C17_Witness ==
    /\ recentlyDeleted # <<>>
    /\ hist.kind = "deleted"
    /\ Len(blogs) >= 1
    /\ recentlyDeleted[1].index.val = Len(blogs)

\* C18: adds between a delete and its restore do not move the restored
\* record away from its neighbours: an undoDelete() directly after an
\* addBlog() yields the added record followed by the list the restore
\* would have yielded before that add (after a delete and one add: the
\* added record followed by the list as it was before the delete).
C18_RestoreAmongNeighbours ==
    [][ (/\ hist.kind = "added"
         /\ recentlyDeleted # <<>>
         /\ \E throws \in BOOLEAN : undoDelete(throws))
        => blogs' = <<blogs[1]>> \o
                    InsertAt(hist.list,
                             MathMin(recentlyDeleted[1].index, Num(Len(hist.list))),
                             recentlyDeleted[1].blog)
      ]_vars

\* C19: after every addBlog() whose save() returns, before or after the
\* DOMContentLoaded handler has run, the list under the storage key is the
\* new record followed by the list that was under the key before the call.
C19_AddKeepsPersisted ==
    [][ (\E title \in Titles : addBlog(title, FALSE))
        => /\ storage'.kind = "list"
           /\ Len(storage'.list) >= 1
           /\ storage'.list[1] = [id |-> now, title |-> "Untitled"]
           /\ Tail(storage'.list) = IF storage.kind = "list" THEN storage.list ELSE <<>>
      ]_vars

\* C20: while the slot holds a record, the store does not hold it, also
\* after a save() that threw.  Stated for the states after a splicing
\* delete and after the restore that follows it, the deleted record having
\* occurred once in the list before the delete (so that a record of the
\* store equal to it is the same record).
C20_SlotRecordNotInStore ==
    (/\ recentlyDeleted # <<>>
     /\ hist.kind \in {"deleted", "restored"}
     /\ Count(recentlyDeleted[1].blog, hist.list) = 1)
    => Count(recentlyDeleted[1].blog, blogs) = 0
====
